---- MODULE Spec2Model ----
(***************************************************************************)
(* Model of the SeaScript expander (SeaScript.parse_script and             *)
(* SeaScript.replace_variables) and of the command executor that consumes  *)
(* its result (ADBTool.run_sea_script, ADBTool.run_command_in_thread,      *)
(* ADBCommandThread) of src/main.py.                                       *)
(*                                                                         *)
(* A Python str is modelled as a sequence of one-character strings, so    *)
(* that startswith, split, strip, replace, slicing and int() are computed *)
(* character by character as Python computes them.                         *)
(***************************************************************************)
EXTENDS Integers, Sequences, FiniteSets, TLC

\* ------------------------------------------------------------------------
\* Bounds
\* ------------------------------------------------------------------------
\* longest script (in lines) of the general specification
MaxLines == 3
\* longest script (in lines) of the loop specification
MaxLoopLines == 5
\* longest script (in lines) of the repeated-call specification
MaxAgainLines == 2
\* longest script (in lines) of the directive specification
MaxDirLines == 3
\* most calls of parse_script on one SeaScript object
MaxCalls == 2

\* ------------------------------------------------------------------------
\* Python string primitives
\* ------------------------------------------------------------------------
\* characters str.strip() removes
IsSpace(c) == c \in {" ", "\t", "\n"}

Digits == <<"0", "1", "2", "3", "4", "5", "6", "7", "8", "9">>

IsDigit(c) == \E d \in 1..10 : Digits[d] = c

DigitVal(c) == (CHOOSE d \in 1..10 : Digits[d] = c) - 1

\* s[n:]
Drop(s, n) == IF n >= Len(s) THEN <<>> ELSE SubSeq(s, n + 1, Len(s))

\* s.startswith(p)
StartsWith(s, p) == Len(s) >= Len(p) /\ SubSeq(s, 1, Len(p)) = p

RECURSIVE LStrip(_)
LStrip(s) == IF s # <<>> /\ IsSpace(s[1]) THEN LStrip(Drop(s, 1)) ELSE s

RECURSIVE RStrip(_)
RStrip(s) ==
    IF s # <<>> /\ IsSpace(s[Len(s)]) THEN RStrip(SubSeq(s, 1, Len(s) - 1)) ELSE s

\* s.strip()
Strip(s) == RStrip(LStrip(s))

\* s.find(p) + 1: the first position at which p occurs in s, 0 when none
RECURSIVE FindFrom(_, _, _)
FindFrom(s, p, i) ==
    IF i + Len(p) - 1 > Len(s) THEN 0
    ELSE IF SubSeq(s, i, i + Len(p) - 1) = p THEN i
    ELSE FindFrom(s, p, i + 1)

Find(s, p) == FindFrom(s, p, 1)

\* s.split(sep) for a non-empty separator: empty pieces are kept
RECURSIVE Split(_, _)
Split(s, sep) ==
    LET i == Find(s, sep) IN
    IF i = 0 THEN <<s>>
    ELSE <<SubSeq(s, 1, i - 1)>> \o Split(Drop(s, i + Len(sep) - 1), sep)

\* s.replace(old, new) for a non-empty old: leftmost, non-overlapping
RECURSIVE Replace(_, _, _)
Replace(s, old, new) ==
    LET i == Find(s, old) IN
    IF i = 0 THEN s
    ELSE SubSeq(s, 1, i - 1) \o new \o Replace(Drop(s, i + Len(old) - 1), old, new)

\* ' '.join(parts)
RECURSIVE Join(_)
Join(parts) ==
    IF parts = <<>> THEN <<>>
    ELSE IF Len(parts) = 1 THEN parts[1]
    ELSE parts[1] \o <<" ">> \o Join(Drop(parts, 1))

\* value of a string of decimal digits and single underscores
RECURSIVE DigitsVal(_, _)
DigitsVal(s, acc) ==
    IF s = <<>> THEN acc
    ELSE IF s[1] = "_" THEN DigitsVal(Drop(s, 1), acc)
    ELSE DigitsVal(Drop(s, 1), acc * 10 + DigitVal(s[1]))

\* the digit part int() accepts: digits, with single underscores between them
IsDigitString(s) ==
    /\ s # <<>>
    /\ IsDigit(s[1])
    /\ IsDigit(s[Len(s)])
    /\ \A i \in 1..Len(s) : IsDigit(s[i]) \/ s[i] = "_"
    /\ \A i \in 1..(Len(s) - 1) : ~(s[i] = "_" /\ s[i + 1] = "_")

\* int(tok): surrounding whitespace and one sign are accepted;
\* ok = FALSE stands for ValueError
ParseInt(tok) ==
    LET t    == Strip(tok)
        neg  == t # <<>> /\ t[1] = "-"
        sgn  == t # <<>> /\ t[1] \in {"-", "+"}
        body == IF sgn THEN Drop(t, 1) ELSE t
    IN  IF IsDigitString(body)
        THEN [ok |-> TRUE,
              val |-> IF neg THEN 0 - DigitsVal(body, 0) ELSE DigitsVal(body, 0)]
        ELSE [ok |-> FALSE, val |-> 0]

\* ------------------------------------------------------------------------
\* Script text
\* ------------------------------------------------------------------------
kw_device  == <<"d", "e", "v", "i", "c", "e">>
kw_echo    == <<"e", "c", "h", "o">>
kw_set     == <<"s", "e", "t">>
kw_if      == <<"i", "f">>
kw_endif   == <<"e", "n", "d", "i", "f">>
kw_loop    == <<"l", "o", "o", "p">>
kw_endloop == <<"e", "n", "d", "l", "o", "o", "p">>
SP         == <<" ">>
EqEq       == <<"=", "=">>

\* the text ${name}
Placeholder(name) == <<"$", "{">> \o name \o <<"}">>

\* device serials the device picker can hold
DevX == <<"X">>
DevY == <<"Y">>
\* what the device picker holds when run_sea_script is called
Devices == {DevX}

L_cmd_v     == <<"a">> \o SP \o Placeholder(<<"v">>)
L_cmd_b     == <<"b">>
L_set_v_w   == kw_set \o SP \o <<"v">> \o SP \o Placeholder(<<"w">>)
L_set_w_2   == kw_set \o SP \o <<"w">> \o SP \o <<"2">>
L_set_v_x   == kw_set \o SP \o <<"v">> \o SP \o <<"x">>
L_echo      == kw_echo \o SP \o <<"h", "i">>
L_devices   == kw_device \o <<"s">>
L_settings  == kw_set \o <<"t", "i", "n", "g", "s">> \o SP \o <<"p", "u", "t">>
                  \o SP \o <<"g">> \o SP \o <<"1">>
L_ifconfig  == kw_if \o <<"c", "o", "n", "f", "i", "g">>
L_if_dev_X  == kw_if \o SP \o kw_device \o SP \o EqEq \o SP \o DevX
L_if_dev_Y  == kw_if \o SP \o kw_device \o SP \o EqEq \o SP \o DevY
L_endif     == kw_endif
L_loop_0    == kw_loop \o SP \o <<"0">>
L_loop_2    == kw_loop \o SP \o <<"2">>
L_loop_neg  == kw_loop \o SP \o <<"-", "1">>
L_loop_var  == kw_loop \o SP \o Placeholder(<<"w">>)
L_loop_none == kw_loop
L_endloop   == kw_endloop
L_device_Y  == kw_device \o SP \o DevY
L_cmd_dev   == <<"a">> \o SP \o Placeholder(kw_device)
L_set_short == kw_set \o SP \o <<"v">>
L_device_0  == kw_device
L_if_noeq   == kw_if \o SP \o <<"v">>
L_blank     == <<" ", " ">>
L_comment   == <<" ", "#", " ", "c", "\n">>

\* the lines scripts of the general specification are made of
LinePool ==
    { L_cmd_v, L_cmd_b, L_set_v_w, L_set_w_2, L_echo, L_devices, L_settings,
      L_ifconfig, L_if_dev_X, L_if_dev_Y, L_endif, L_loop_2, L_loop_neg, L_loop_var,
      L_loop_none, L_endloop, L_device_Y, L_blank, L_comment }

\* the lines scripts of the loop specification are made of
LoopLinePool == { L_cmd_v, L_cmd_b, L_set_v_x, L_loop_0, L_loop_2, L_endloop }

\* all sequences over S of length at most n
SeqsUpTo(S, n) == UNION { [1..m -> S] : m \in 0..n }

Scripts == SeqsUpTo(LinePool, MaxLines)

LoopScripts == SeqsUpTo(LoopLinePool, MaxLoopLines)

\* the lines scripts of the directive specification are made of
DirLinePool ==
    { L_cmd_v, L_set_v_x, L_set_short, L_device_Y, L_device_0, L_if_dev_Y,
      L_if_noeq, L_endif, L_loop_2, L_endloop }

DirScripts == SeqsUpTo(DirLinePool, MaxDirLines)

\* the lines scripts of the repeated-call specification are made of
AgainLinePool == { L_cmd_dev, L_cmd_v, L_set_v_x, L_device_Y, L_loop_2, L_echo }

AgainScripts == SeqsUpTo(AgainLinePool, MaxAgainLines)

\* ------------------------------------------------------------------------
\* The variable table: a Python dict, kept in insertion order as a sequence
\* of <<name, value>> pairs
\* ------------------------------------------------------------------------
DictHas(d, k) == \E i \in 1..Len(d) : d[i][1] = k

DictGet(d, k) == d[CHOOSE i \in 1..Len(d) : d[i][1] = k][2]

\* d[k] = v: an existing key keeps its position
DictSet(d, k, v) ==
    IF DictHas(d, k)
    THEN [i \in 1..Len(d) |-> IF d[i][1] = k THEN <<k, v>> ELSE d[i]]
    ELSE Append(d, <<k, v>>)

\* SeaScript.replace_variables: one str.replace per table entry, in
\* insertion order, each applied to the result of the one before
RECURSIVE replace_variables(_, _)
replace_variables(line, d) ==
    IF d = <<>> THEN line
    ELSE replace_variables(Replace(line, Placeholder(d[1][1]), d[1][2]), Drop(d, 1))

\* a loop that repeats each captured line loop_count times in turn
LoopUnrollInterleaved(cmds, body, n) ==
    IF n <= 0 THEN cmds
    ELSE cmds \o [i \in 1..(n * Len(body)) |-> body[((i - 1) \div n) + 1]]

\* for _ in range(loop_count): commands.extend(loop_commands)
RECURSIVE LoopUnroll(_, _, _)
LoopUnroll(cmds, body, n) ==
    IF n <= 0 THEN cmds ELSE LoopUnroll(cmds \o body, body, n - 1)

\* ------------------------------------------------------------------------
\* State
\* ------------------------------------------------------------------------
VARIABLES
    lines,           \* file.readlines() of the chosen script
    selected,        \* the device picker's current text
    pc,              \* position of the GUI thread inside run_sea_script
    idx,             \* number of lines the for loop of parse_script has taken
    commands,        \* parse_script: commands
    in_loop,         \* parse_script: in_loop
    loop_count,      \* parse_script: loop_count
    loop_commands,   \* parse_script: loop_commands
    variables,       \* SeaScript.variables
    device,          \* SeaScript.device
    result,          \* "none" while parsing, "ok" once parse_script has
                     \* returned, "error" once it has raised
    exc,             \* the exception parse_script raised, "" when none
    cmd_i,           \* number of commands the for loop of run_sea_script has taken
    threads,         \* every ADBCommandThread created, in creation order
    current_thread,  \* ADBTool.current_thread: index into threads, 0 for None
    calls            \* number of parse_script calls begun on the SeaScript object

vars == <<lines, selected, pc, idx, commands, in_loop, loop_count, loop_commands,
          variables, device, result, exc, cmd_i, threads, current_thread, calls>>

parseVars == <<commands, in_loop, loop_count, loop_commands, variables, device>>

execVars == <<cmd_i, threads, current_thread>>

\* ------------------------------------------------------------------------
\* SeaScript.parse_script, one iteration of its for loop
\* ------------------------------------------------------------------------
\* the parser's locals and fields as one record
ParserState ==
    [commands |-> commands, in_loop |-> in_loop, loop_count |-> loop_count,
     loop_commands |-> loop_commands, variables |-> variables,
     device |-> device, exc |-> ""]

\* the if directive: the condition is evaluated, and both outcomes go on to
\* the next line
IfDirective(s, line) ==
    LET condition == Strip(Drop(line, 3))
        pieces    == Split(condition, EqEq)
    IN  IF Len(pieces) # 2
        THEN [s EXCEPT !.exc = "ValueError"]
        ELSE LET var_name == Strip(pieces[1])
                 value    == Strip(pieces[2])
                 held     == IF DictHas(s.variables, var_name)
                             THEN DictGet(s.variables, var_name) ELSE <<"None">>
             IN  IF held # value THEN s ELSE s

\* the loop directive
LoopDirective(s, line) ==
    LET parts == Split(line, SP) IN
    IF Len(parts) < 2
    THEN [s EXCEPT !.exc = "IndexError"]
    ELSE LET n == ParseInt(parts[2]) IN
         IF ~n.ok
         THEN [s EXCEPT !.exc = "ValueError"]
         ELSE [s EXCEPT !.loop_count = n.val, !.in_loop = TRUE]

\* the set directive
SetDirective(s, line) ==
    LET parts == Split(line, SP) IN
    IF Len(parts) >= 3
    THEN [s EXCEPT !.variables = DictSet(s.variables, parts[2], Join(Drop(parts, 2)))]
    ELSE s

\* the device directive
DeviceDirective(s, line) ==
    LET parts == Split(line, SP) IN
    IF Len(parts) < 2
    THEN [s EXCEPT !.exc = "IndexError"]
    ELSE [s EXCEPT !.device = parts[2]]

\* an endloop that leaves the captured lines in the buffer
InLoopLineKeepsBuffer(s, line) ==
    IF line = kw_endloop
    THEN [s EXCEPT !.commands = LoopUnroll(s.commands, s.loop_commands, s.loop_count),
                   !.in_loop = FALSE]
    ELSE [s EXCEPT !.loop_commands =
                       Append(s.loop_commands, replace_variables(line, s.variables))]

\* a loop body in which set lines are carried out instead of captured
InLoopLineInterpreting(s, line) ==
    IF line = kw_endloop
    THEN [s EXCEPT !.commands = LoopUnroll(s.commands, s.loop_commands, s.loop_count),
                   !.in_loop = FALSE,
                   !.loop_commands = <<>>]
    ELSE IF StartsWith(line, kw_set) THEN SetDirective(s, line)
    ELSE [s EXCEPT !.loop_commands =
                       Append(s.loop_commands, replace_variables(line, s.variables))]

\* a line met while in_loop holds
InLoopLine(s, line) ==
    IF line = kw_endloop
    THEN [s EXCEPT !.commands = LoopUnroll(s.commands, s.loop_commands, s.loop_count),
                   !.in_loop = FALSE,
                   !.loop_commands = <<>>]
    ELSE [s EXCEPT !.loop_commands =
                       Append(s.loop_commands, replace_variables(line, s.variables))]

\* the body of the for loop for one raw line
ParseLine(s, raw) ==
    LET line == Strip(raw) IN
    IF line = <<>> \/ StartsWith(line, <<"#">>) THEN s
    ELSE IF s.in_loop THEN InLoopLine(s, line)
    ELSE IF StartsWith(line, kw_device) THEN DeviceDirective(s, line)
    \* SeaScript has no output_display attribute
    ELSE IF StartsWith(line, kw_echo) THEN [s EXCEPT !.exc = "AttributeError"]
    ELSE IF StartsWith(line, kw_set) THEN SetDirective(s, line)
    ELSE IF StartsWith(line, kw_if) THEN IfDirective(s, line)
    ELSE IF line = kw_endif THEN s
    ELSE IF StartsWith(line, kw_loop) THEN LoopDirective(s, line)
    ELSE [s EXCEPT !.commands = Append(s.commands, replace_variables(line, s.variables))]

\* ------------------------------------------------------------------------
\* Initial states
\* ------------------------------------------------------------------------
\* run_sea_script has created SeaScript(device) and parse_script has run up
\* to its for loop; no command thread exists yet
InitOver(S) ==
    /\ lines \in S
    /\ selected \in Devices
    /\ pc = "parse"
    /\ idx = 0
    /\ commands = <<>>
    /\ in_loop = FALSE
    /\ loop_count = 0
    /\ loop_commands = <<>>
    /\ variables = << <<kw_device, selected>> >>
    /\ device = selected
    /\ result = "none"
    /\ exc = ""
    /\ cmd_i = 0
    /\ threads = <<>>
    /\ current_thread = 0
    /\ calls = 1

Init == InitOver(Scripts)

InitLoop == InitOver(LoopScripts)

InitAgain == InitOver(AgainScripts)

InitDir == InitOver(DirScripts)

\* ------------------------------------------------------------------------
\* Actions
\* ------------------------------------------------------------------------
\* a for loop that passes over the line after the one it takes
ProcessLineSkipping ==
    /\ pc = "parse"
    /\ idx < Len(lines)
    /\ LET s == ParseLine(ParserState, lines[idx + 1]) IN
        /\ commands' = s.commands
        /\ in_loop' = s.in_loop
        /\ loop_count' = s.loop_count
        /\ loop_commands' = s.loop_commands
        /\ variables' = s.variables
        /\ device' = s.device
        /\ exc' = s.exc
        /\ result' = IF s.exc = "" THEN "none" ELSE "error"
        /\ pc' = IF s.exc = "" THEN "parse" ELSE "done"
    /\ idx' = IF idx + 2 <= Len(lines) THEN idx + 2 ELSE idx + 1
    /\ UNCHANGED <<lines, selected, calls, execVars>>

\* one iteration of "for line in lines"; an exception leaves parse_script
\* and run_sea_script
ProcessLine ==
    /\ pc = "parse"
    /\ idx < Len(lines)
    /\ LET s == ParseLine(ParserState, lines[idx + 1]) IN
        /\ commands' = s.commands
        /\ in_loop' = s.in_loop
        /\ loop_count' = s.loop_count
        /\ loop_commands' = s.loop_commands
        /\ variables' = s.variables
        /\ device' = s.device
        /\ exc' = s.exc
        /\ result' = IF s.exc = "" THEN "none" ELSE "error"
        /\ pc' = IF s.exc = "" THEN "parse" ELSE "done"
    /\ idx' = idx + 1
    /\ UNCHANGED <<lines, selected, calls, execVars>>

\* "return commands" once the lines are exhausted
ParseReturn ==
    /\ pc = "parse"
    /\ idx = Len(lines)
    /\ result' = "ok"
    /\ pc' = "iter"
    /\ UNCHANGED <<lines, selected, calls, idx, parseVars, exc, execVars>>

\* parse_script is called once more on the same SeaScript object, with
\* another script: its locals start afresh and the table is seeded from
\* self.device
ParseAgain ==
    /\ result # "none"
    /\ calls < MaxCalls
    /\ calls' = calls + 1
    /\ lines' \in AgainScripts
    /\ pc' = "parse"
    /\ idx' = 0
    /\ commands' = <<>>
    /\ in_loop' = FALSE
    /\ loop_count' = 0
    /\ loop_commands' = <<>>
    /\ variables' = << <<kw_device, device>> >>
    /\ result' = "none"
    /\ exc' = ""
    /\ UNCHANGED <<selected, device, execVars>>

\* execute_adb_command: the device-qualified form of a command
QualifiedCommand(dev, command) == <<"-", "s", " ">> \o dev \o SP \o command

\* a dispatcher that never waits for the thread before
MustWaitNever(cur, ths) == FALSE

\* QThread.isRunning() of current_thread
MustWait(cur, ths) == cur # 0 /\ ths[cur].state = "running"

\* run_sea_script takes the next command and enters run_command_in_thread:
\* a running current_thread is waited for (quit() has no effect on a thread
\* whose run() has no event loop)
RunCommandEnter ==
    /\ pc = "iter"
    /\ cmd_i < Len(commands)
    /\ pc' = IF MustWait(current_thread, threads) THEN "wait" ELSE "start"
    /\ UNCHANGED <<lines, selected, calls, idx, parseVars, result, exc, execVars>>

\* current_thread.wait() returns once the thread has finished
WaitReturn ==
    /\ pc = "wait"
    /\ threads[current_thread].state = "finished"
    /\ pc' = "start"
    /\ UNCHANGED <<lines, selected, calls, idx, parseVars, result, exc, execVars>>

\* the new ADBCommandThread is created and started
StartThread ==
    /\ pc = "start"
    /\ threads' = Append(threads, [command |-> commands[cmd_i + 1], state |-> "running"])
    /\ current_thread' = Len(threads) + 1
    /\ cmd_i' = cmd_i + 1
    /\ pc' = "iter"
    /\ UNCHANGED <<lines, selected, calls, idx, parseVars, result, exc>>

\* the for loop of run_sea_script is exhausted
RunDone ==
    /\ pc = "iter"
    /\ cmd_i = Len(commands)
    /\ pc' = "done"
    /\ UNCHANGED <<lines, selected, calls, idx, parseVars, result, exc, execVars>>

\* ADBCommandThread.run: the subprocess ends (or fails) and run returns
ThreadRun ==
    /\ \E t \in 1..Len(threads) :
        /\ threads[t].state = "running"
        /\ threads' = [threads EXCEPT ![t].state = "finished"]
    /\ UNCHANGED <<lines, selected, calls, pc, idx, parseVars, result, exc, cmd_i, current_thread>>

Next ==
    \/ ProcessLine
    \/ ParseReturn
    \/ RunCommandEnter
    \/ WaitReturn
    \/ StartThread
    \/ RunDone
    \/ ThreadRun

\* parse_script alone
NextExpand ==
    \/ ProcessLine
    \/ ParseReturn

\* run_sea_script over the general scripts
Spec == Init /\ [][Next]_vars

\* parse_script over the loop scripts
SpecLoop == InitLoop /\ [][NextExpand]_vars

\* parse_script over the directive scripts
SpecDir == InitDir /\ [][NextExpand]_vars

\* "for line in lines" moves on to its next line: the step of ProcessLine as
\* the loop counter shows it
ForNext ==
    /\ pc = "parse"
    /\ idx < Len(lines)
    /\ idx' = idx + 1

\* the for loop has run out of lines and control reaches "return commands":
\* the step of ParseReturn as the control position shows it
ForExit ==
    /\ pc = "parse"
    /\ idx = Len(lines)
    /\ pc' = "iter"

\* parse_script over the directive scripts, as the synchronous pass it is:
\* the for loop takes its next line and the function returns whenever it can
SpecLive ==
    InitDir /\ [][NextExpand]_vars /\ WF_idx(ForNext) /\ WF_pc(ForExit)

\* parse_script called repeatedly on one SeaScript object
NextAgain ==
    \/ ProcessLine
    \/ ParseReturn
    \/ ParseAgain

SpecAgain == InitAgain /\ [][NextAgain]_vars

\* ------------------------------------------------------------------------
\* The specified expander (spec.md, sections 4.1 to 4.3 and 7), against
\* which the results of parse_script are compared
\* ------------------------------------------------------------------------
\* whitespace-delimited tokens of a line
RECURSIVE Words(_)
Words(s) ==
    LET t == LStrip(s) IN
    IF t = <<>> THEN <<>>
    ELSE LET ends == {i \in 1..Len(t) : IsSpace(t[i])}
             e    == IF ends = {} THEN Len(t) + 1
                     ELSE CHOOSE i \in ends : \A j \in ends : i <= j
         IN  <<SubSeq(t, 1, e - 1)>> \o Words(Drop(t, e - 1))

FirstToken(line) == IF Words(line) = <<>> THEN <<>> ELSE Words(line)[1]

Keywords == {kw_device, kw_set, kw_if, kw_endif, kw_loop, kw_endloop}

\* a raw line that reaches the expander: not blank, not a comment
Effective(raw) == Strip(raw) # <<>> /\ Strip(raw)[1] # "#"

\* a token that is a non-negative decimal integer
IsCount(tok) == tok # <<>> /\ \A i \in 1..Len(tok) : IsDigit(tok[i])

\* substitute(line, table): every ${name} with name in the table is
\* replaced by its value, in one left-to-right scan; substituted text is
\* not scanned again
RECURSIVE SimulSubst(_, _)
SimulSubst(s, d) ==
    IF s = <<>> THEN <<>>
    ELSE IF StartsWith(s, <<"$", "{">>) /\ Find(s, <<"}">>) # 0
    THEN LET close == Find(s, <<"}">>)
             name  == SubSeq(s, 3, close - 1)
         IN  IF DictHas(d, name)
             THEN DictGet(d, name) \o SimulSubst(Drop(s, close), d)
             ELSE <<s[1]>> \o SimulSubst(Drop(s, 1), d)
    ELSE <<s[1]>> \o SimulSubst(Drop(s, 1), d)

\* n consecutive copies of body
Repeat(body, n) ==
    [i \in 1..(n * Len(body)) |-> body[((i - 1) % Len(body)) + 1]]

\* one transition of the specified state machine; c.err # "" ends the run
SpecStep(c, raw) ==
    LET line == Strip(raw)
        w    == Words(line)
        kw   == FirstToken(line)
    IN
    IF c.err # "" \/ ~Effective(raw) THEN c
    ELSE IF c.state = "InLoop" THEN
        IF line = kw_endloop
        THEN [c EXCEPT !.out = c.out \o Repeat(c.buf, c.count),
                       !.buf = <<>>, !.state = "Normal"]
        ELSE IF kw = kw_loop THEN [c EXCEPT !.err = "NestedLoopNotSupported"]
        ELSE [c EXCEPT !.buf = Append(c.buf, SimulSubst(line, c.table))]
    ELSE IF c.state = "GateClosed" THEN
        IF line = kw_endif THEN [c EXCEPT !.state = "Normal"]
        ELSE IF kw = kw_if THEN [c EXCEPT !.err = "NestedIfNotSupported"]
        ELSE c
    ELSE IF kw = kw_device THEN
        IF Len(w) < 2 THEN [c EXCEPT !.err = "MalformedDirective"]
        ELSE [c EXCEPT !.table = DictSet(c.table, kw_device, w[2])]
    ELSE IF kw = kw_set THEN
        IF Len(w) < 3 THEN [c EXCEPT !.err = "MalformedDirective"]
        ELSE [c EXCEPT !.table = DictSet(c.table, w[2], Join(Drop(w, 2)))]
    ELSE IF kw = kw_if THEN
        LET rest == Drop(line, 2)
            i    == Find(rest, EqEq)
        IN  IF i = 0 THEN [c EXCEPT !.err = "MalformedDirective"]
            ELSE LET var      == Strip(SubSeq(rest, 1, i - 1))
                     expected == Strip(Drop(rest, i + 1))
                 IN  IF DictHas(c.table, var) /\ DictGet(c.table, var) = expected
                     THEN c
                     ELSE [c EXCEPT !.state = "GateClosed"]
    ELSE IF line = kw_endif THEN c
    ELSE IF kw = kw_loop THEN
        IF Len(w) < 2 \/ ~IsCount(w[2]) THEN [c EXCEPT !.err = "MalformedDirective"]
        ELSE [c EXCEPT !.state = "InLoop", !.buf = <<>>,
                       !.count = DigitsVal(w[2], 0)]
    ELSE IF line = kw_endloop THEN [c EXCEPT !.err = "UnmatchedEndLoop"]
    ELSE [c EXCEPT !.out = Append(c.out, SimulSubst(line, c.table))]

RECURSIVE SpecRun(_, _)
SpecRun(ls, c) == IF ls = <<>> THEN c ELSE SpecRun(Drop(ls, 1), SpecStep(c, ls[1]))

\* expand(lines, initialDevice): err = "" and the command sequence, or the
\* error and no command sequence
SpecExpand(ls, dev) ==
    LET c == SpecRun(ls, [state |-> "Normal", table |-> << <<kw_device, dev>> >>,
                          out |-> <<>>, buf |-> <<>>, count |-> 0, err |-> ""])
    IN  IF c.err # "" THEN [err |-> c.err, out |-> <<>>]
        ELSE IF c.state # "Normal" THEN [err |-> "UnterminatedBlock", out |-> <<>>]
        ELSE [err |-> "", out |-> c.out]

\* ------------------------------------------------------------------------
\* Properties
\* ------------------------------------------------------------------------
\* the line the for loop of parse_script takes next, stripped
NextLine == Strip(lines[idx + 1])

\* parse_script is about to take an effective line while no loop is open
NormalStep == pc = "parse" /\ idx < Len(lines) /\ ~in_loop /\ Effective(lines[idx + 1])

\* a line no directive keyword is a prefix of
IsCommandLine(raw) ==
    /\ Effective(raw)
    /\ \A k \in {kw_device, kw_echo, kw_set, kw_if, kw_loop, kw_endif, kw_endloop} :
           ~StartsWith(Strip(raw), k)

\* a set line with a name and a value, its tokens one space apart
IsSetLine(raw) ==
    /\ FirstToken(raw) = kw_set
    /\ Len(Words(raw)) >= 3
    /\ Strip(raw) = Join(Words(raw))

\* a line that opens an if block
IsIfLine(raw) == Effective(raw) /\ FirstToken(raw) = kw_if

\* a line whose first token is loop
IsLoopLine(raw) == Effective(raw) /\ FirstToken(raw) = kw_loop

\* C1: a script with no loop and no if directive (and no error of section 7)
\* expands to its substituted plain command lines in order; blank, comment,
\* device, set and endif lines contribute nothing.
C1_PlainScriptExpansion ==
    ( /\ result # "none"
      /\ \A i \in 1..Len(lines) : ~IsLoopLine(lines[i]) /\ ~IsIfLine(lines[i])
      /\ SpecExpand(lines, selected).err = "" )
    => (result = "ok" /\ commands = SpecExpand(lines, selected).out)

\* C2: in a script whose other lines are plain commands and set lines, the
\* body of an if block is emitted as outside the block when the condition
\* holds and is absent from the output when it does not.
C2_IfBlockGated ==
    ( /\ result # "none"
      /\ \E i \in 1..Len(lines) : IsIfLine(lines[i])
      /\ \A i \in 1..Len(lines) :
            \/ ~Effective(lines[i])
            \/ IsIfLine(lines[i])
            \/ Strip(lines[i]) = kw_endif
            \/ IsCommandLine(lines[i])
            \/ IsSetLine(lines[i])
      /\ SpecExpand(lines, selected).err = "" )
    => (result = "ok" /\ commands = SpecExpand(lines, selected).out)

\* the effective lines of a script, stripped
RECURSIVE EffLines(_)
EffLines(ls) ==
    IF ls = <<>> THEN <<>>
    ELSE IF Effective(ls[1]) THEN <<Strip(ls[1])>> \o EffLines(Drop(ls, 1))
    ELSE EffLines(Drop(ls, 1))

\* plain command lines and set lines taken in order from table t: the
\* commands emitted and the table left
RECURSIVE PlainRun(_, _)
PlainRun(ls, t) ==
    IF ls = <<>> THEN [out |-> <<>>, table |-> t]
    ELSE IF IsSetLine(ls[1])
    THEN PlainRun(Drop(ls, 1), DictSet(t, Words(ls[1])[2], Join(Drop(Words(ls[1]), 2))))
    ELSE LET r == PlainRun(Drop(ls, 1), t)
         IN  [out |-> <<replace_variables(ls[1], t)>> \o r.out, table |-> r.table]

\* positions of the loop lines and of the endloop lines
LoopAt(E) == {i \in 1..Len(E) : IsLoopLine(E[i])}
EndLoopAt(E) == {i \in 1..Len(E) : E[i] = kw_endloop}

\* a script with one loop block: plain commands and set lines, then
\* "loop n" with n >= 0, a body without loop or endloop lines, endloop, and
\* again plain commands and set lines
OneLoopBlock(ls) ==
    LET E == EffLines(ls) IN
    /\ Cardinality(LoopAt(E)) = 1
    /\ Cardinality(EndLoopAt(E)) = 1
    /\ LET p == CHOOSE i \in LoopAt(E) : TRUE
           q == CHOOSE i \in EndLoopAt(E) : TRUE
       IN  /\ p < q
           /\ Len(Words(E[p])) = 2
           /\ IsCount(Words(E[p])[2])
           /\ E[p] = Join(Words(E[p]))
           /\ \A i \in (1..Len(E)) \ (p..q) : IsCommandLine(E[i]) \/ IsSetLine(E[i])

LoopPos(ls) == CHOOSE i \in LoopAt(EffLines(ls)) : TRUE
EndLoopPos(ls) == CHOOSE i \in EndLoopAt(EffLines(ls)) : TRUE
LoopN(ls) == DigitsVal(Words(EffLines(ls)[LoopPos(ls)])[2], 0)
LoopBody(ls) == SubSeq(EffLines(ls), LoopPos(ls) + 1, EndLoopPos(ls) - 1)

\* what a script with one loop block is to expand to
OneLoopExpected(ls, dev) ==
    LET E     == EffLines(ls)
        pre   == PlainRun(SubSeq(E, 1, LoopPos(ls) - 1), << <<kw_device, dev>> >>)
        body  == LoopBody(ls)
        bodyS == [i \in 1..Len(body) |-> replace_variables(body[i], pre.table)]
        post  == PlainRun(SubSeq(E, EndLoopPos(ls) + 1, Len(E)), pre.table)
    IN  pre.out \o Repeat(bodyS, LoopN(ls)) \o post.out

\* C3: the block loop n / b1..bk / endloop contributes exactly n consecutive
\* copies of the substituted body, in order and not interleaved, between the
\* commands before and after the block; nothing when n = 0.
C3_LoopUnrolled ==
    (result = "ok" /\ OneLoopBlock(lines))
    => commands = OneLoopExpected(lines, selected)

\* C3 witness: a returned expansion of a command followed by a loop of
\* count 2 over two different body lines
C3_Witness ==
    /\ result = "ok"
    /\ OneLoopBlock(lines)
    /\ LoopN(lines) = 2
    /\ LoopPos(lines) > 1
    /\ Len(LoopBody(lines)) = 2
    /\ LoopBody(lines)[1] # LoopBody(lines)[2]
    /\ Len(commands) = 5

\* C4: a command line met in Normal state is emitted with every ${name} of
\* a name in the table replaced by that name's value and every other
\* placeholder left as written.
C4_SetSubstitution ==
    [][(NormalStep /\ IsCommandLine(lines[idx + 1]))
       => commands' = Append(commands, SimulSubst(NextLine, variables))]_vars

\* C5: a script with any error condition of section 7 yields an error and
\* no command sequence, and no command of it reaches the executor.
C5_AllOrNothing ==
    SpecExpand(lines, selected).err # "" => (result # "ok" /\ threads = <<>>)

\* C6: an endloop line met while no loop is open makes the expansion fail
\* and is not emitted.
C6_UnmatchedEndLoop ==
    [][(NormalStep /\ NextLine = kw_endloop)
       => (result' = "error" /\ commands' = commands)]_vars

\* C7: reaching the end of the lines with a loop still open makes the
\* expansion fail instead of returning a command sequence.
C7_UnterminatedBlock ==
    [][(pc = "parse" /\ idx = Len(lines) /\ in_loop) => result' = "error"]_vars

\* C8: a loop line whose second token is missing or is not a non-negative
\* integer makes the expansion fail and opens no loop.
C8_LoopCountLiteral ==
    [][(/\ NormalStep
        /\ IsLoopLine(lines[idx + 1])
        /\ (Len(Words(NextLine)) < 2 \/ ~IsCount(Words(NextLine)[2])))
       => (result' = "error" /\ ~in_loop')]_vars

\* C9: in Normal state a line whose first token is not a directive keyword
\* is emitted once, substituted, and changes neither the table, the active
\* device nor the expander state.
C9_WholeTokenKeywords ==
    [][(NormalStep /\ FirstToken(lines[idx + 1]) \notin Keywords)
       => /\ commands' = Append(commands, replace_variables(NextLine, variables))
          /\ variables' = variables
          /\ device' = device
          /\ in_loop' = in_loop
          /\ result' = "none"]_vars

\* C10: the resolved commands are started in order, each only after the
\* thread of the one before has finished, and no two threads run at once.
C10_SerialInOrder ==
    /\ Cardinality({t \in 1..Len(threads) : threads[t].state = "running"}) <= 1
    /\ Len(threads) <= Len(commands)
    /\ \A t \in 1..Len(threads) : threads[t].command = commands[t]
    /\ \A t \in 1..(Len(threads) - 1) : threads[t].state = "finished"

\* C10 witness: a second command has been started while the main thread
\* had to wait for the first
C10_Witness ==
    /\ Len(threads) >= 2
    /\ threads[1].state = "finished"
    /\ threads[2].state = "running"

\* parse_script run to its end from parser state s
RECURSIVE ParseRest(_, _)
ParseRest(s, ls) ==
    IF s.exc # "" \/ ls = <<>> THEN s ELSE ParseRest(ParseLine(s, ls[1]), Drop(ls, 1))

\* what SeaScript(dev).parse_script gives for ls on a new object
FreshExpansion(ls, dev) ==
    LET s == ParseRest([commands |-> <<>>, in_loop |-> FALSE, loop_count |-> 0,
                        loop_commands |-> <<>>,
                        variables |-> << <<kw_device, dev>> >>,
                        device |-> dev, exc |-> ""], ls)
    IN  <<s.exc, IF s.exc = "" THEN s.commands ELSE <<>> >>

\* C11: an expansion that follows an earlier one on the same parser object
\* gives what the same lines and the same initial device give on a new
\* object; nothing of the earlier run influences it.
C11_NoCarryOver ==
    (calls >= 2 /\ result # "none")
    => <<exc, IF exc = "" THEN commands ELSE <<>> >> = FreshExpansion(lines, selected)

\* C12: every command thread of a script run is given the resolved command
\* qualified with the active device (the selected one or the one a device
\* directive named).
C12_DeviceQualified ==
    \A t \in 1..Len(threads) :
        \/ threads[t].command = QualifiedCommand(selected, commands[t])
        \/ threads[t].command = QualifiedCommand(device, commands[t])

\* C13: a device directive met in Normal state sets the table's device
\* entry to the name it gives and emits no command.
C13_DeviceUpdatesTable ==
    [][(/\ NormalStep
        /\ FirstToken(lines[idx + 1]) = kw_device
        /\ Len(Words(NextLine)) >= 2)
       => (/\ DictHas(variables', kw_device)
           /\ DictGet(variables', kw_device) = Words(NextLine)[2]
           /\ commands' = commands)]_vars

\* the state the specified expander is in after the first n lines
SpecStateAfter(ls, dev, n) ==
    LET c == SpecRun(SubSeq(ls, 1, n),
                     [state |-> "Normal", table |-> << <<kw_device, dev>> >>,
                      out |-> <<>>, buf |-> <<>>, count |-> 0, err |-> ""])
    IN  IF c.err # "" THEN "Error" ELSE c.state

\* parse_script is about to take an effective line inside an if block whose
\* condition was false
GateClosedStep ==
    /\ pc = "parse"
    /\ idx < Len(lines)
    /\ Effective(lines[idx + 1])
    /\ SpecStateAfter(lines, selected, idx) = "GateClosed"

\* C14: inside an if block whose condition is false, a line other than
\* endif and if leaves the variable table and the active device unchanged.
C14_ClosedGateNoEffect ==
    [][(GateClosedStep /\ NextLine # kw_endif /\ ~IsIfLine(lines[idx + 1]))
       => (variables' = variables /\ device' = device)]_vars

\* C15: in a script of set lines and command lines, every command is
\* emitted with the values of the table put in literally: a value that
\* holds a placeholder is not expanded again.
C15_NonRecursive ==
    ( /\ result = "ok"
      /\ \A i \in 1..Len(lines) : IsSetLine(lines[i]) \/ IsCommandLine(lines[i]) )
    => commands = SpecExpand(lines, selected).out

\* C16: a loop line met while a loop is open makes the expansion fail and
\* is neither captured nor emitted.
C16_NestedLoop ==
    [][(pc = "parse" /\ idx < Len(lines) /\ in_loop /\ IsLoopLine(lines[idx + 1]))
       => (/\ result' = "error"
           /\ loop_commands' = loop_commands
           /\ commands' = commands)]_vars

\* C19: an if line met inside an if block whose condition was false makes
\* the expansion fail.
C19_NestedIf ==
    [][(GateClosedStep /\ IsIfLine(lines[idx + 1])) => result' = "error"]_vars

\* C17: a set line with fewer than three tokens, a device line without an
\* identifier and an if line without == each end the expansion with an
\* error.
C17_MalformedAborts ==
    [][(/\ NormalStep
        /\ \/ FirstToken(lines[idx + 1]) = kw_set /\ Len(Words(NextLine)) < 3
           \/ FirstToken(lines[idx + 1]) = kw_device /\ Len(Words(NextLine)) < 2
           \/ IsIfLine(lines[idx + 1]) /\ Find(NextLine, EqEq) = 0)
       => result' = "error"]_vars

\* C18: inside an open loop a line other than loop and endloop is appended,
\* substituted, to the capture buffer and nothing else changes: a set,
\* device, if or endif line in a loop body is not carried out.
C18_LoopBodyFlat ==
    [][(/\ pc = "parse"
        /\ idx < Len(lines)
        /\ in_loop
        /\ Effective(lines[idx + 1])
        /\ NextLine # kw_endloop
        /\ ~IsLoopLine(lines[idx + 1]))
       => (/\ loop_commands' = Append(loop_commands, replace_variables(NextLine, variables))
           /\ variables' = variables
           /\ device' = device
           /\ commands' = commands
           /\ in_loop'
           /\ loop_count' = loop_count
           /\ result' = "none")]_vars

\* C18 witness: an open loop has captured a set line, whose name is still
\* absent from the table, and a further line
C18_Witness ==
    /\ in_loop
    /\ Len(loop_commands) >= 2
    /\ IsSetLine(loop_commands[1])
    /\ ~DictHas(variables, Words(loop_commands[1])[2])

\* the position, among the first n lines, of the loop line of the loop
\* still open after them; 0 when no loop is open
RECURSIVE OpenLoopPos(_, _)
OpenLoopPos(ls, n) ==
    IF n = 0 THEN 0
    ELSE LET p == OpenLoopPos(ls, n - 1) IN
         IF ~Effective(ls[n]) THEN p
         ELSE IF p # 0 THEN (IF Strip(ls[n]) = kw_endloop THEN 0 ELSE p)
         ELSE IF StartsWith(Strip(ls[n]), kw_loop) THEN n
         ELSE 0

\* the effective lines at positions from..to, each substituted from table t
RECURSIVE CapturedLines(_, _, _, _)
CapturedLines(ls, from, to, t) ==
    IF from > to THEN <<>>
    ELSE IF Effective(ls[from])
    THEN <<replace_variables(Strip(ls[from]), t)>> \o CapturedLines(ls, from + 1, to, t)
    ELSE CapturedLines(ls, from + 1, to, t)

\* C20: while no loop is open the capture buffer is empty, and while a loop
\* is open the buffer holds exactly the lines met since that loop's own
\* loop line, never lines of an earlier loop.
C20_BufferOwnLoop ==
    /\ ~in_loop => loop_commands = <<>>
    /\ in_loop =>
        /\ OpenLoopPos(lines, idx) # 0
        /\ loop_commands =
               CapturedLines(lines, OpenLoopPos(lines, idx) + 1, idx, variables)

\* C20 witness: a second loop is open and has captured a line after an
\* earlier loop was closed and emitted its body
C20_Witness ==
    /\ in_loop
    /\ loop_commands # <<>>
    /\ commands # <<>>
    /\ \E i \in 2..idx :
        /\ Strip(lines[i]) = kw_endloop
        /\ OpenLoopPos(lines, i - 1) # 0
        /\ i < OpenLoopPos(lines, idx)

\* C21: the expansion of a finite script terminates: every step of the
\* pass takes exactly the next line, the script is never changed, a command
\* sequence is returned only once all lines are taken, and the pass always
\* ends with a command sequence or an error.
C21_Terminates ==
    /\ [][/\ lines' = lines
          /\ (pc = "parse" /\ idx < Len(lines)) => idx' = idx + 1
          /\ ~(pc = "parse" /\ idx < Len(lines)) => idx' = idx]_vars
    /\ [](result = "ok" => idx = Len(lines))
    /\ [](idx <= Len(lines))
    /\ <>(result # "none")

\* C21 witness: a script of at least three lines has been taken to its last
\* line and has returned commands
C21_Witness ==
    /\ result = "ok"
    /\ Len(lines) >= 3
    /\ idx = Len(lines)
    /\ commands # <<>>

====
